---- MODULE Spec2Model ----
(***************************************************************************)
(* Asset resolution and caching subsystem of the portfolio site:           *)
(* AssetManager (src/src/utils/AssetManager.ts) and the React hooks built  *)
(* on it (src/src/utils/useAssets.ts).                                     *)
(*                                                                         *)
(* The JavaScript host is a single-threaded event loop.  A step of the     *)
(* model is one run-to-completion task: a caller's synchronous code up to  *)
(* its first network await, a network response with every continuation it  *)
(* resumes, or the microtask that resumes a caller awaiting an already     *)
(* resolved promise.  Pending microtasks run before any other task.        *)
(***************************************************************************)
EXTENDS Integers, Sequences, FiniteSets, TLC

(* ------------------------------ bounds --------------------------------- *)
\* Fetcher calls made in one behaviour.
MaxCalls == 3
\* Entries of a preload list.
MaxPreload == 2
\* Elements of an array handed to a Resolver function.
MaxPaths == 3

(* ------------------------------ values --------------------------------- *)
\* JavaScript null (a hook's identifier) and undefined (an omitted folder).
NULL == "<null>"
UNDEFINED == "<undefined>"

Names == {"a", "b"}
Folders == {UNDEFINED, "f"}
AssetType == {"json", "image", "texture", "document", "asset"}
\* Bodies a server may answer a GET with; a resource's content can change
\* between two requests.
Bodies == {"v1", "v2"}
\* The (name, folder) pairs direct callers ask for.
DirectRequests == [name : Names, folder : Folders]
\* import.meta.env.VITE_R2_BASE_URL of the deployed site.
VITE_R2_BASE_URL == "https://r2"
\* No AssetManager has been constructed yet.
NoInstance == "<no instance>"

\* Values held by the cache and by a hook's data / error state.
NullV == <<>>
UrlV(u) == <<"url", u>>
JsonV(u, body) == <<"json", u, body>>
ErrV(kind) == <<"Error", kind>>

\* JavaScript truthiness of a string-or-missing value.
Truthy(s) == s \notin {NULL, UNDEFINED, ""}

(* ------------------------------- state --------------------------------- *)
VARIABLES
  cache,        \* AssetManager.cache: Map<string, any>, as a function
  calls,        \* the Fetcher calls not yet settled, in call order
  nCalls,       \* how many Fetcher calls were made so far
  last,         \* history: the call that settled most recently
  adapters,     \* the hooks' React state, per hook instance
  preload,      \* the preloadAssets call in progress or last finished
  firstStored,  \* history: per key, the first value a fetch stored since
                \* the last clearCache
  config,       \* AssetManager.config.r2.baseUrl (NoInstance before the
                \* constructor ran)
  result        \* the last call of a synchronous function and what it returned

vars == <<cache, calls, nCalls, last, adapters, preload, firstStored, config, result>>

\* What the asynchronous operations leave alone.
env == <<config, result>>

(* ------------------------------ Resolver ------------------------------- *)
\* `${this.config.r2.baseUrl}`: a template literal prints undefined.
baseUrl == IF config = UNDEFINED THEN "undefined" ELSE config

getDirectAssetUrl(path) == baseUrl \o "/" \o path

\* Mutant: images get a folder of their own.
folderPathOf_imagesFolder(type) ==
  CASE type = "texture" -> "textures"
    [] type = "image" -> "images"
    [] type = "json" -> "data"
    [] type = "document" -> "documents"
    [] OTHER -> "assets"

folderPathOf(type) ==
  CASE type = "texture" -> "textures"
    [] type \in {"image", "asset"} -> "assets"
    [] type = "json" -> "data"
    [] type = "document" -> "documents"
    [] OTHER -> "assets"

getAssetUrl(name, type, folder) ==
  LET folderPath == IF Truthy(folder) THEN folder ELSE folderPathOf(type)
  IN  baseUrl \o "/" \o folderPath \o "/" \o name

\* The local variant's defaultConfig.local: baseUrl and folders.
localBaseUrl == "/src"
localFolders ==
  [textures |-> "textures", images |-> "assets", assets |-> "assets",
   data |-> "data", documents |-> "documents"]

\* getAssetUrl of the local variant.
localGetAssetUrl(name, type, folder) ==
  LET folderPath ==
        IF Truthy(folder) THEN folder
        ELSE CASE type = "texture" -> localFolders.textures
               [] type \in {"image", "asset"} -> localFolders.assets
               [] type = "json" -> localFolders.data
               [] type = "document" -> localFolders.documents
               [] OTHER -> localFolders.assets
  IN  localBaseUrl \o "/" \o folderPath \o "/" \o name

\* Mutant: the folder override is left out of the key.
getCacheKey_ignoresFolder(name, type, folder) == type \o "_default_" \o name

getCacheKey(name, type, folder) ==
  type \o "_" \o (IF Truthy(folder) THEN folder ELSE "default") \o "_" \o name

Adapters == {"A1", "A2"}
OneView == {"A1"}

EmptyMap == [k \in {} |-> NullV]
Put(m, k, v) == [x \in DOMAIN m \cup {k} |-> IF x = k THEN v ELSE m[x]]

Direct == [kind |-> "direct", a |-> "", i |-> 0]
ByAdapter(a) == [kind |-> "adapter", a |-> a, i |-> 0]
ByPreload(i) == [kind |-> "preload", a |-> "", i |-> i]

(* ------------------------------- Fetcher ------------------------------- *)
\* A call record.  pc: "fetch" = awaiting the response of fetch(url);
\* "parse" = awaiting response.json(); "ready" = the returned promise is
\* already resolved with val and the awaiting caller resumes in a microtask;
\* "resolved" / "rejected" = settled, val is the result or the error.
\* net: the call issued a network request.  History: at is the number of
\* calls made when this one settled (0 before), expect is the first value
\* stored under the key before the call started (NullV if none).
NewCall(op, key, url, owner, pc, net, val) ==
  [op |-> op, key |-> key, url |-> url, owner |-> owner, pc |-> pc,
   net |-> net, val |-> val, at |-> 0,
   expect |-> IF key \in DOMAIN firstStored THEN firstStored[key] ELSE NullV]

\* No call has settled yet.
NoCall ==
  [op |-> "none", key |-> "", url |-> "", owner |-> Direct, pc |-> "none",
   net |-> FALSE, val |-> NullV, at |-> 0, expect |-> NullV]

\* Mutant: the cache check of lines 105-107 is missing.
fetchJson_skipsCache(name, folder, owner) ==
  NewCall("fetchJson", getCacheKey(name, "json", folder),
          getAssetUrl(name, "json", folder), owner, "fetch", TRUE, NullV)

\* fetchJson up to its first await: the cache check and the GET.
fetchJson(name, folder, owner) ==
  LET cacheKey == getCacheKey(name, "json", folder)
      url == getAssetUrl(name, "json", folder)
  IN  IF cacheKey \in DOMAIN cache
      THEN NewCall("fetchJson", cacheKey, url, owner, "ready", FALSE, cache[cacheKey])
      ELSE NewCall("fetchJson", cacheKey, url, owner, "fetch", TRUE, NullV)

\* Mutant: a call joins the probe of a call in flight for the same key.
fetchImageUrl_joinsInFlight(name, folder, owner) ==
  LET cacheKey == getCacheKey(name, "image", folder)
      url == getAssetUrl(name, "image", folder)
      shared == \E i \in 1..Len(calls) : calls[i].key = cacheKey /\ calls[i].net
  IN  IF cacheKey \in DOMAIN cache
      THEN NewCall("fetchImageUrl", cacheKey, url, owner, "ready", FALSE, cache[cacheKey])
      ELSE NewCall("fetchImageUrl", cacheKey, url, owner, "fetch", ~shared, NullV)

\* fetchImageUrl up to its first await: the cache check and the HEAD probe.
fetchImageUrl(name, folder, owner) ==
  LET cacheKey == getCacheKey(name, "image", folder)
      url == getAssetUrl(name, "image", folder)
  IN  IF cacheKey \in DOMAIN cache
      THEN NewCall("fetchImageUrl", cacheKey, url, owner, "ready", FALSE, cache[cacheKey])
      ELSE NewCall("fetchImageUrl", cacheKey, url, owner, "fetch", TRUE, NullV)

\* Mutant: a URL-only operation probes the URL before it returns it.
UrlCall_probes(val, owner) == NewCall("url", "", "", owner, "fetch", TRUE, val)

\* The URL-only operations: an async function without an await.
UrlCall(val, owner) == NewCall("url", "", "", owner, "ready", FALSE, val)

RECURSIVE MapDirect(_)
MapDirect(paths) ==
  IF paths = <<>> THEN <<>>
  ELSE <<getDirectAssetUrl(Head(paths))>> \o MapDirect(Tail(paths))

RECURSIVE MapTexture(_)
MapTexture(names) ==
  IF names = <<>> THEN <<>>
  ELSE <<getAssetUrl(Head(names), "texture", UNDEFINED)>> \o MapTexture(Tail(names))

UrlsV(us) == <<"urls">> \o us

\* Mutant: the URLs come back in the opposite order.
fetchTextureUrlsFromPaths_reversed(paths) ==
  UrlsV(MapDirect([i \in 1..Len(paths) |-> paths[Len(paths) + 1 - i]]))

fetchTextureUrl(name) == UrlV(getAssetUrl(name, "texture", UNDEFINED))
fetchTextureUrlsFromPaths(paths) == UrlsV(MapDirect(paths))
fetchTextureUrls(names) == UrlsV(MapTexture(names))
fetchImageUrlFromPath(path) == UrlV(getDirectAssetUrl(path))
fetchDocumentUrlFromPath(path) == UrlV(getDirectAssetUrl(path))
fetchDocumentUrl(name, folder) == UrlV(getAssetUrl(name, "document", folder))
fetchAssetUrl(name, type, folder) == UrlV(getAssetUrl(name, type, folder))

\* Mutant: the body is stored before it is known to have parsed.
cacheAfterJson_storesUnparsed(c, parsed, data) == Put(cache, c.key, data)

\* The cache after fetchJson's response.json() settled (lines 117-118).
cacheAfterJson(c, parsed, data) ==
  IF parsed THEN Put(cache, c.key, data) ELSE cache

\* Mutant: the cache.set of line 150 is missing.
cacheAfterProbe_neverStores(c, ok) == cache

\* Mutant: the URL is stored before the probe's status is checked.
cacheAfterProbe_storesUnprobed(c, ok) == Put(cache, c.key, UrlV(c.url))

\* Mutant: a failed probe evicts the key.
cacheAfterProbe_evictsOnFailure(c, ok) ==
  IF ok THEN Put(cache, c.key, UrlV(c.url))
  ELSE [k \in DOMAIN cache \ {c.key} |-> cache[k]]

\* The cache after fetchImageUrl's HEAD probe settled (lines 141-150).
cacheAfterProbe(c, ok) ==
  IF ok THEN Put(cache, c.key, UrlV(c.url)) ELSE cache

(* ------------------------------- hooks --------------------------------- *)
HookKinds == {"useJsonAsset", "useImageAsset", "useTextureAssetsFromPaths",
              "useTextureAssets", "useImageAssetFromPath",
              "useDocumentAssetFromPath", "useDocumentAsset", "useAsset"}
ArrayKinds == {"useTextureAssetsFromPaths", "useTextureAssets"}

\* A null array binding (paths: string[] | null).
NullArr == <<NULL>>
PathArrays == {NullArr, <<>>, <<"a">>, <<"a", "b">>, <<"b", "a">>, <<"a,b">>}
Fallbacks == {UNDEFINED, "/fallback.png"}

\* paths.join(',')
RECURSIVE join(_)
join(paths) ==
  IF paths = <<>> THEN ""
  ELSE IF Len(paths) = 1 THEN Head(paths)
  ELSE Head(paths) \o "," \o join(Tail(paths))

\* The dependency of useMemo: paths ? paths.join(',') : null
memoKey(paths) == IF paths = NullArr THEN NULL ELSE join(paths)

\* useState(null), useState(false), useState(null) of a hook not yet mounted.
NoAdapter ==
  [mounted |-> FALSE, kind |-> "none", name |-> NULL, paths |-> NullArr,
   memo |-> NullArr, type |-> "asset", folder |-> UNDEFINED,
   preloadOpt |-> FALSE, fallback |-> UNDEFINED,
   data |-> NullV, loading |-> FALSE, error |-> NullV, everBound |-> FALSE]

\* History: the identifier the view passes is null.
idIsNull(rec) ==
  IF rec.kind \in ArrayKinds THEN rec.paths = NullArr ELSE rec.name = NULL

\* Mutant: the early return of fetchData is missing.
nullBinding_neverReturnsEarly(rec) == FALSE

\* The early return of fetchData: if (!name), if (!memoizedPaths || length === 0).
nullBinding(rec) ==
  IF rec.kind \in ArrayKinds
  THEN rec.memo = NullArr \/ Len(rec.memo) = 0
  ELSE ~Truthy(rec.name)

\* options.fallback || null (useImageAsset), null (every other hook).
fallbackOrNull(rec) ==
  IF rec.kind = "useImageAsset" /\ Truthy(rec.fallback)
  THEN UrlV(rec.fallback) ELSE NullV

\* The Fetcher operation a hook's fetchData awaits.
fetcherCall(rec, owner) ==
  CASE rec.kind = "useJsonAsset" -> fetchJson(rec.name, rec.folder, owner)
    [] rec.kind = "useImageAsset" -> fetchImageUrl(rec.name, rec.folder, owner)
    [] rec.kind = "useTextureAssetsFromPaths" ->
         UrlCall(fetchTextureUrlsFromPaths(rec.memo), owner)
    [] rec.kind = "useTextureAssets" -> UrlCall(fetchTextureUrls(rec.memo), owner)
    [] rec.kind = "useImageAssetFromPath" ->
         UrlCall(fetchImageUrlFromPath(rec.name), owner)
    [] rec.kind = "useDocumentAssetFromPath" ->
         UrlCall(fetchDocumentUrlFromPath(rec.name), owner)
    [] rec.kind = "useDocumentAsset" ->
         UrlCall(fetchDocumentUrl(rec.name, rec.folder), owner)
    [] OTHER -> UrlCall(fetchAssetUrl(rec.name, rec.type, rec.folder), owner)

\* Mutant: setError(null) is missing before the fetch.
fetchData_keepsError(a, rec) ==
  IF nullBinding(rec)
  THEN /\ adapters' = [adapters EXCEPT ![a] =
            [rec EXCEPT !.data = fallbackOrNull(rec), !.loading = FALSE,
                        !.error = NullV]]
       /\ calls' = calls /\ nCalls' = nCalls
  ELSE /\ nCalls < MaxCalls
       /\ nCalls' = nCalls + 1
       /\ adapters' = [adapters EXCEPT ![a] = [rec EXCEPT !.loading = TRUE]]
       /\ calls' = Append(calls, fetcherCall(rec, ByAdapter(a)))

\* Mutant: starting a fetch toggles loading instead of setting it.
fetchData_togglesLoading(a, rec) ==
  IF nullBinding(rec)
  THEN /\ adapters' = [adapters EXCEPT ![a] =
            [rec EXCEPT !.data = fallbackOrNull(rec), !.loading = FALSE,
                        !.error = NullV]]
       /\ calls' = calls /\ nCalls' = nCalls
  ELSE /\ nCalls < MaxCalls
       /\ nCalls' = nCalls + 1
       /\ adapters' = [adapters EXCEPT ![a] =
            [rec EXCEPT !.loading = ~rec.loading, !.error = NullV]]
       /\ calls' = Append(calls, fetcherCall(rec, ByAdapter(a)))

\* Mutant: starting a fetch also resets data.
fetchData_clearsData(a, rec) ==
  IF nullBinding(rec)
  THEN /\ adapters' = [adapters EXCEPT ![a] =
            [rec EXCEPT !.data = fallbackOrNull(rec), !.loading = FALSE,
                        !.error = NullV]]
       /\ calls' = calls /\ nCalls' = nCalls
  ELSE /\ nCalls < MaxCalls
       /\ nCalls' = nCalls + 1
       /\ adapters' = [adapters EXCEPT ![a] =
            [rec EXCEPT !.data = NullV, !.loading = TRUE, !.error = NullV]]
       /\ calls' = Append(calls, fetcherCall(rec, ByAdapter(a)))

\* fetchData up to its await, for the hook a whose bindings are rec's.
fetchData(a, rec) ==
  IF nullBinding(rec)
  THEN /\ adapters' = [adapters EXCEPT ![a] =
            [rec EXCEPT !.data = fallbackOrNull(rec), !.loading = FALSE,
                        !.error = NullV]]
       /\ calls' = calls /\ nCalls' = nCalls
  ELSE /\ nCalls < MaxCalls
       /\ nCalls' = nCalls + 1
       /\ adapters' = [adapters EXCEPT ![a] =
            [rec EXCEPT !.loading = TRUE, !.error = NullV]]
       /\ calls' = Append(calls, fetcherCall(rec, ByAdapter(a)))

\* useEffect's body: useJsonAsset guards the call, the other hooks do not.
effectRuns(rec) ==
  IF rec.kind = "useJsonAsset" THEN rec.preloadOpt \/ Truthy(rec.name) ELSE TRUE

\* The effect after a render with bindings rec.
runEffect(a, rec) ==
  IF effectRuns(rec) THEN fetchData(a, rec)
  ELSE adapters' = [adapters EXCEPT ![a] = rec] /\ calls' = calls /\ nCalls' = nCalls

\* Mutant: the catch branch does not reset data.
adapterAfter_keepsData(rec, ok, val) ==
  IF ok THEN [rec EXCEPT !.data = val, !.loading = FALSE]
  ELSE [rec EXCEPT !.loading = FALSE, !.error = val]

\* Mutant: the catch branch does not call setLoading(false).
adapterAfter_failureKeepsLoading(rec, ok, val) ==
  IF ok THEN [rec EXCEPT !.data = val, !.loading = FALSE]
  ELSE [rec EXCEPT !.data = fallbackOrNull(rec), !.error = val]

\* Mutant: the try branch also resets error.
adapterAfter_clearsError(rec, ok, val) ==
  IF ok THEN [rec EXCEPT !.data = val, !.loading = FALSE, !.error = NullV]
  ELSE [rec EXCEPT !.data = fallbackOrNull(rec), !.loading = FALSE, !.error = val]

\* fetchData after its await: the try branch (ok) or the catch branch.
adapterAfter(rec, ok, val) ==
  IF ok THEN [rec EXCEPT !.data = val, !.loading = FALSE]
  ELSE [rec EXCEPT !.data = fallbackOrNull(rec), !.loading = FALSE, !.error = val]

adaptersAfter(owner, ok, val) ==
  IF owner.kind = "adapter"
  THEN [adapters EXCEPT ![owner.a] = adapterAfter(@, ok, val)]
  ELSE adapters

(* --------------------------- Preload Batcher --------------------------- *)
PreloadRequests ==
  [type : AssetType, name : {"a"}, folder : {UNDEFINED}]

RECURSIVE SeqsUpTo(_, _)
SeqsUpTo(S, n) ==
  IF n = 0 THEN {<<>>}
  ELSE SeqsUpTo(S, n - 1)
         \cup {Append(q, x) : q \in {r \in SeqsUpTo(S, n - 1) : Len(r) = n - 1}, x \in S}

\* The lists preloadAssets is called with.
PreloadLists == SeqsUpTo(PreloadRequests, MaxPreload)

\* Mutant: the image operation is called without await.
awaited_jsonOnly(asset) == asset.type = "json"

awaited(asset) == asset.type \in {"json", "image", "asset"}

\* The call one entry of the list makes (the switch of lines 211-226); the
\* texture and document operations are called and their promise is dropped.
preloadDispatch(asset, i) ==
  CASE asset.type = "json" -> fetchJson(asset.name, asset.folder, ByPreload(i))
    [] asset.type \in {"image", "asset"} ->
         fetchImageUrl(asset.name, asset.folder, ByPreload(i))
    [] OTHER -> NewCall("none", "", "", ByPreload(i), "resolved", FALSE, NullV)

\* The entry's own promise right after dispatch.
entryAtDispatch(asset) ==
  [type |-> asset.type, name |-> asset.name, folder |-> asset.folder,
   st |-> IF awaited(asset) THEN "pending" ELSE "ok",
   promise |-> IF awaited(asset) THEN "pending" ELSE "fulfilled"]

\* Mutant: the promise of an entry whose operation failed never settles.
entryAfter_hangsOnFailure(e, ok) ==
  IF ok THEN [e EXCEPT !.st = "ok", !.promise = "fulfilled"]
  ELSE [e EXCEPT !.st = "failed"]

\* try { await ... } catch { console.warn }: the entry's promise fulfils
\* whether the operation succeeded or failed.
entryAfter(e, ok) ==
  [e EXCEPT !.st = IF ok THEN "ok" ELSE "failed", !.promise = "fulfilled"]

\* await Promise.allSettled(promises)
allSettled(entries) ==
  IF \A i \in 1..Len(entries) : entries[i].promise # "pending"
  THEN "resolved" ELSE "pending"

\* Mutant: a failing entry aborts the entries still pending.
entriesAfter_abortsOnFailure(entries, i, ok) ==
  IF ok THEN [entries EXCEPT ![i] = entryAfter(@, ok)]
  ELSE [j \in 1..Len(entries) |->
          IF entries[j].st = "pending" THEN entryAfter(entries[j], FALSE)
          ELSE entries[j]]

\* The list's promises after entry i's operation settled.
entriesAfter(entries, i, ok) == [entries EXCEPT ![i] = entryAfter(@, ok)]

preloadAfter(owner, ok) ==
  IF owner.kind = "preload"
  THEN LET es == entriesAfter(preload.entries, owner.i, ok)
       IN  [preload EXCEPT !.entries = es, !.status = allSettled(es)]
  ELSE preload

(* ------------------------------- actions ------------------------------- *)
\* No synchronous function was called yet.
NoResult == [op |-> "none", arg |-> <<>>, val |-> <<>>]

Init ==
  /\ cache = EmptyMap
  /\ calls = <<>>
  /\ nCalls = 0
  /\ last = NoCall
  /\ adapters = [a \in Adapters |-> NoAdapter]
  /\ preload = [status |-> "idle", entries |-> <<>>, cleared |-> FALSE]
  /\ firstStored = EmptyMap
  /\ config = VITE_R2_BASE_URL
  /\ result = NoResult

\* A caller resumes in a microtask; microtasks run before any other task.
Pending == \E i \in 1..Len(calls) : calls[i].pc = "ready"

\* History: the first value stored under the key of call c.
recordStore(c) ==
  IF c.key \in DOMAIN cache' /\ c.key \notin DOMAIN firstStored
  THEN Put(firstStored, c.key, cache'[c.key]) ELSE firstStored

Without(q, i) == SubSeq(q, 1, i - 1) \o SubSeq(q, i + 1, Len(q))

\* Mutant: a failed request is issued once more before the call rejects.
Settle_retriesOnFailure(i, ok, val) ==
  IF ~ok /\ nCalls < MaxCalls
  THEN /\ calls' = [calls EXCEPT ![i].pc = "fetch"]
       /\ nCalls' = nCalls + 1
       /\ UNCHANGED <<last, adapters, preload>>
  ELSE /\ calls' = Without(calls, i)
       /\ last' = [calls[i] EXCEPT !.pc = IF ok THEN "resolved" ELSE "rejected",
                                   !.val = val, !.at = nCalls]
       /\ nCalls' = nCalls
       /\ adapters' = adaptersAfter(calls[i].owner, ok, val)
       /\ preload' = preloadAfter(calls[i].owner, ok)

\* Call i settles and the code awaiting it resumes.
Settle(i, ok, val) ==
  /\ calls' = Without(calls, i)
  /\ last' = [calls[i] EXCEPT !.pc = IF ok THEN "resolved" ELSE "rejected",
                              !.val = val, !.at = nCalls]
  /\ nCalls' = nCalls
  /\ adapters' = adaptersAfter(calls[i].owner, ok, val)
  /\ preload' = preloadAfter(calls[i].owner, ok)

\* The caller of an already resolved call resumes (cache hit, URL-only).
Deliver(i) ==
  /\ calls[i].pc = "ready"
  /\ \A j \in 1..(i - 1) : calls[j].pc # "ready"
  /\ Settle(i, TRUE, calls[i].val)
  /\ UNCHANGED <<cache, firstStored, env>>

\* fetch(url) of fetchJson settles: lines 111-115.
JsonResponse(i, outcome) ==
  /\ ~Pending
  /\ calls[i].op = "fetchJson" /\ calls[i].pc = "fetch"
  /\ IF outcome = "ok"
     THEN /\ calls' = [calls EXCEPT ![i].pc = "parse"]
          /\ UNCHANGED <<nCalls, last, adapters, preload>>
     ELSE Settle(i, FALSE, ErrV(outcome))
  /\ UNCHANGED <<cache, firstStored, env>>

\* response.json() of fetchJson settles: lines 117-119, or the catch.
JsonParsed(i, body) ==
  /\ ~Pending
  /\ calls[i].op = "fetchJson" /\ calls[i].pc = "parse"
  /\ LET parsed == body \in Bodies
         data == JsonV(calls[i].url, body)
     IN  /\ cache' = cacheAfterJson(calls[i], parsed, data)
         /\ firstStored' = recordStore(calls[i])
         /\ Settle(i, parsed, IF parsed THEN data ELSE ErrV("parse"))
  /\ UNCHANGED env

\* The HEAD probe of fetchImageUrl settles: lines 141-151.
ImageResponse(i, outcome) ==
  /\ ~Pending
  /\ calls[i].op = "fetchImageUrl" /\ calls[i].pc = "fetch"
  /\ LET ok == outcome = "ok"
     IN  /\ cache' = cacheAfterProbe(calls[i], ok)
         /\ firstStored' = recordStore(calls[i])
         /\ Settle(i, ok, IF ok THEN UrlV(calls[i].url) ELSE ErrV(outcome))
  /\ UNCHANGED env

\* A caller other than a hook or the preloader calls the Fetcher.
DirectFetchJson(name, folder) ==
  /\ config # NoInstance
  /\ ~Pending /\ nCalls < MaxCalls
  /\ calls' = Append(calls, fetchJson(name, folder, Direct))
  /\ nCalls' = nCalls + 1
  /\ UNCHANGED <<cache, last, adapters, preload, firstStored, env>>

DirectFetchImageUrl(name, folder) ==
  /\ config # NoInstance
  /\ ~Pending /\ nCalls < MaxCalls
  /\ calls' = Append(calls, fetchImageUrl(name, folder, Direct))
  /\ nCalls' = nCalls + 1
  /\ UNCHANGED <<cache, last, adapters, preload, firstStored, env>>

\* preloadAssets(assets) up to await Promise.allSettled.
PreloadAssets(assets) ==
  /\ ~Pending /\ preload.status # "pending"
  /\ nCalls + Len(SelectSeq(assets, awaited)) <= MaxCalls
  /\ LET n == Len(assets)
         made == [i \in 1..n |-> preloadDispatch(assets[i], i)]
         new == SelectSeq(made, LAMBDA c : c.op # "none")
         es == [i \in 1..n |-> entryAtDispatch(assets[i])]
     IN  /\ calls' = calls \o new
         /\ nCalls' = nCalls + Len(new)
         /\ preload' = [status |-> allSettled(es), entries |-> es, cleared |-> FALSE]
  /\ UNCHANGED <<cache, last, adapters, firstStored, env>>

\* Mutant: clearCache also drops the calls in flight.
ClearCache_cancelsInFlight ==
  /\ ~Pending /\ DOMAIN cache # {}
  /\ cache' = EmptyMap
  /\ firstStored' = EmptyMap
  /\ preload' = [preload EXCEPT !.cleared = preload.status # "idle"]
  /\ calls' = <<>>
  /\ UNCHANGED <<nCalls, last, adapters, env>>

\* clearCache()
ClearCache ==
  /\ ~Pending /\ DOMAIN cache # {}
  /\ cache' = EmptyMap
  /\ firstStored' = EmptyMap
  /\ preload' = [preload EXCEPT !.cleared = preload.status # "idle"]
  /\ UNCHANGED <<calls, nCalls, last, adapters, env>>

\* The bindings a view can give a hook when it mounts it.
MountOptions ==
  LET base == [NoAdapter EXCEPT !.mounted = TRUE]
      ids == Names \cup {NULL}
  IN  {[base EXCEPT !.kind = "useJsonAsset", !.name = n, !.folder = f, !.preloadOpt = p] :
          n \in ids, f \in Folders, p \in BOOLEAN}
      \cup {[base EXCEPT !.kind = "useImageAsset", !.name = n, !.folder = f, !.fallback = b] :
          n \in ids, f \in Folders, b \in Fallbacks}
      \cup {[base EXCEPT !.kind = k, !.paths = p, !.memo = p] :
          k \in ArrayKinds, p \in PathArrays}
      \cup {[base EXCEPT !.kind = k, !.name = n] :
          k \in {"useImageAssetFromPath", "useDocumentAssetFromPath"}, n \in ids}
      \cup {[base EXCEPT !.kind = "useDocumentAsset", !.name = n, !.folder = f] :
          n \in ids, f \in Folders}
      \cup {[base EXCEPT !.kind = "useAsset", !.name = n, !.type = t, !.folder = f] :
          n \in ids, t \in AssetType, f \in Folders}

\* First render of a hook and its effect.
Mount(a, rec) ==
  /\ ~Pending /\ ~adapters[a].mounted
  /\ runEffect(a, [rec EXCEPT !.everBound = ~idIsNull(rec)])
  /\ UNCHANGED <<cache, last, preload, firstStored, env>>

\* The view re-renders a hook with another name (or null).
Rebind(a, name) ==
  /\ ~Pending /\ adapters[a].mounted
  /\ adapters[a].kind \notin ArrayKinds
  /\ name # adapters[a].name
  /\ runEffect(a, [adapters[a] EXCEPT !.name = name,
                                      !.everBound = @ \/ name # NULL])
  /\ UNCHANGED <<cache, last, preload, firstStored, env>>

\* The view re-renders an array hook with another array (or null); the
\* effect runs only when the joined string changed.
RebindPaths(a, paths) ==
  /\ ~Pending /\ adapters[a].mounted
  /\ adapters[a].kind \in ArrayKinds
  /\ paths # adapters[a].paths
  /\ LET old == adapters[a]
         changed == memoKey(paths) # memoKey(old.paths)
         rec == [old EXCEPT !.paths = paths,
                            !.memo = IF changed THEN paths ELSE old.memo]
         rec2 == [rec EXCEPT !.everBound = @ \/ ~idIsNull(rec)]
     IN  IF changed THEN fetchData(a, rec2)
         ELSE adapters' = [adapters EXCEPT ![a] = rec2] /\ calls' = calls /\ nCalls' = nCalls
  /\ UNCHANGED <<cache, last, preload, firstStored, env>>

\* refetch()
Refetch(a) ==
  /\ ~Pending /\ adapters[a].mounted
  /\ fetchData(a, adapters[a])
  /\ UNCHANGED <<cache, last, preload, firstStored, env>>

\* Mutant: the effect's cleanup aborts the hook's requests.
Unmount_aborts(a) ==
  /\ ~Pending /\ adapters[a].mounted
  /\ adapters' = [adapters EXCEPT ![a].mounted = FALSE]
  /\ calls' = SelectSeq(calls, LAMBDA c : c.owner # ByAdapter(a))
  /\ UNCHANGED <<cache, nCalls, last, preload, firstStored, env>>

\* The view that owns hook a is torn down: the effect returns no cleanup
\* function, so nothing runs.
Unmount(a) ==
  /\ ~Pending /\ adapters[a].mounted
  /\ adapters' = [adapters EXCEPT ![a].mounted = FALSE]
  /\ UNCHANGED <<cache, calls, nCalls, last, preload, firstStored, env>>

\* The bindings of the views that are mounted once and torn down.
TeardownOptions ==
  {[NoAdapter EXCEPT !.mounted = TRUE, !.kind = k, !.name = n] :
      k \in {"useJsonAsset", "useImageAsset"}, n \in Names}

\* A view that was never rendered mounts its hook.
MountView(a, rec) ==
  /\ adapters[a].kind = "none"
  /\ Mount(a, rec)

\* A network response arrives or a suspended caller resumes.
Network ==
  \/ \E i \in 1..Len(calls) : Deliver(i)
  \/ \E i \in 1..Len(calls), o \in {"ok", "status", "transport"} : JsonResponse(i, o)
  \/ \E i \in 1..Len(calls), b \in Bodies \cup {"<invalid>"} : JsonParsed(i, b)
  \/ \E i \in 1..Len(calls), o \in {"ok", "status", "transport"} : ImageResponse(i, o)

\* The AssetManager called directly.
NextFetcher ==
  \/ Network
  \/ \E r \in DirectRequests : DirectFetchJson(r.name, r.folder)
  \/ \E r \in DirectRequests : DirectFetchImageUrl(r.name, r.folder)
  \/ ClearCache

\* The AssetManager used through preloadAssets.
NextPreload ==
  \/ Network
  \/ \E assets \in PreloadLists : PreloadAssets(assets)
  \/ ClearCache

\* The AssetManager used through the hook of one mounted view.
NextHooks ==
  \/ Network
  \/ ClearCache
  \/ \E a \in OneView, rec \in MountOptions : Mount(a, rec)
  \/ \E a \in OneView, n \in Names \cup {NULL} : Rebind(a, n)
  \/ \E a \in OneView, p \in PathArrays : RebindPaths(a, p)
  \/ \E a \in OneView : Refetch(a)

\* The values r2.baseUrl can have when the module is loaded: the
\* environment variable set, set to the empty string, or not set.
BaseUrlInputs == {VITE_R2_BASE_URL, "", UNDEFINED}

\* constructor(config): stores the configuration and logs it; no statement
\* of it throws.
constructor(cfg) == [throws |-> FALSE, baseUrl |-> cfg]

\* new AssetManager(config)
Construct(cfg) ==
  /\ config = NoInstance
  /\ ~constructor(cfg).throws
  /\ config' = constructor(cfg).baseUrl
  /\ UNCHANGED <<cache, calls, nCalls, last, adapters, preload, firstStored, result>>

\* The module before its singleton is constructed.
InitConfig ==
  /\ cache = EmptyMap
  /\ calls = <<>>
  /\ nCalls = 0
  /\ last = NoCall
  /\ adapters = [a \in Adapters |-> NoAdapter]
  /\ preload = [status |-> "idle", entries |-> <<>>, cleared |-> FALSE]
  /\ firstStored = EmptyMap
  /\ config = NoInstance
  /\ result = NoResult

\* The AssetManager from its construction on, called directly.
NextConfig ==
  \/ \E cfg \in BaseUrlInputs : Construct(cfg)
  \/ NextFetcher

\* The requests and path arrays the Resolver functions are called with.
ResolverRequests ==
  [name : {"a", "x/y.png"}, type : AssetType, folder : {UNDEFINED, "", "f"}]
PathElements == {"a.png", "b.png", "a,b"}
ResolverArrays == SeqsUpTo(PathElements, MaxPaths)

\* What a function that only computes leaves alone.
untouched == <<cache, calls, nCalls, last, adapters, preload, firstStored, config>>

\* One call of a function that only computes, as result keeps it.
Returned(op, arg, val) == [op |-> op, arg |-> arg, val |-> val]

CallGetAssetUrl(r) ==
  /\ config # NoInstance
  /\ result' = Returned("getAssetUrl", <<r.name, r.type, r.folder>>,
                        <<getAssetUrl(r.name, r.type, r.folder)>>)
  /\ UNCHANGED untouched

CallLocalGetAssetUrl(r) ==
  /\ config # NoInstance
  /\ result' = Returned("local.getAssetUrl", <<r.name, r.type, r.folder>>,
                        <<localGetAssetUrl(r.name, r.type, r.folder)>>)
  /\ UNCHANGED untouched

CallGetCacheKey(r) ==
  /\ config # NoInstance
  /\ result' = Returned("getCacheKey", <<r.name, r.type, r.folder>>,
                        <<getCacheKey(r.name, r.type, r.folder)>>)
  /\ UNCHANGED untouched

CallGetDirectAssetUrl(path) ==
  /\ config # NoInstance
  /\ result' = Returned("getDirectAssetUrl", <<path>>, <<getDirectAssetUrl(path)>>)
  /\ UNCHANGED untouched

CallFetchTextureUrlsFromPaths(paths) ==
  /\ config # NoInstance
  /\ result' = Returned("fetchTextureUrlsFromPaths", paths,
                        fetchTextureUrlsFromPaths(paths))
  /\ UNCHANGED untouched

CallFetchTextureUrls(names) ==
  /\ config # NoInstance
  /\ result' = Returned("fetchTextureUrls", names, fetchTextureUrls(names))
  /\ UNCHANGED untouched

\* An AssetManager constructed with one of two base URLs, its cache empty
\* or holding the document an earlier fetchJson("a") stored.
InitResolver ==
  /\ config \in {VITE_R2_BASE_URL, "https://cdn/v2"}
  /\ \E warm \in BOOLEAN :
       LET entry == Put(EmptyMap, getCacheKey("a", "json", UNDEFINED),
                        JsonV(getAssetUrl("a", "json", UNDEFINED), "v1"))
       IN  /\ cache = IF warm THEN entry ELSE EmptyMap
           /\ firstStored = IF warm THEN entry ELSE EmptyMap
  /\ calls = <<>>
  /\ nCalls = 0
  /\ last = NoCall
  /\ adapters = [a \in Adapters |-> NoAdapter]
  /\ preload = [status |-> "idle", entries |-> <<>>, cleared |-> FALSE]
  /\ result = NoResult

\* The Resolver and the operations that only map it over an array.
NextResolver ==
  \/ \E r \in ResolverRequests : CallGetAssetUrl(r)
  \/ \E r \in ResolverRequests : CallLocalGetAssetUrl(r)
  \/ \E r \in ResolverRequests : CallGetCacheKey(r)
  \/ \E path \in PathElements : CallGetDirectAssetUrl(path)
  \/ \E paths \in ResolverArrays : CallFetchTextureUrlsFromPaths(paths)
  \/ \E names \in ResolverArrays : CallFetchTextureUrls(names)

\* A direct caller calls an operation that only returns URL(s).
DirectUrlOnly(val) ==
  /\ config # NoInstance
  /\ ~Pending /\ nCalls < MaxCalls
  /\ calls' = Append(calls, UrlCall(val, Direct))
  /\ nCalls' = nCalls + 1
  /\ UNCHANGED <<cache, last, adapters, preload, firstStored, env>>

DirectFetchTextureUrl(name) == DirectUrlOnly(fetchTextureUrl(name))
DirectFetchTextureUrls(names) == DirectUrlOnly(fetchTextureUrls(names))
DirectFetchTextureUrlsFromPaths(paths) ==
  DirectUrlOnly(fetchTextureUrlsFromPaths(paths))
DirectFetchImageUrlFromPath(path) == DirectUrlOnly(fetchImageUrlFromPath(path))
DirectFetchDocumentUrlFromPath(path) ==
  DirectUrlOnly(fetchDocumentUrlFromPath(path))
DirectFetchDocumentUrl(name, folder) == DirectUrlOnly(fetchDocumentUrl(name, folder))
DirectFetchAssetUrl(name, type, folder) ==
  DirectUrlOnly(fetchAssetUrl(name, type, folder))

\* The arrays direct callers hand to the texture operations.
DirectArrays == {<<>>, <<"a">>, <<"b", "a">>}

\* The AssetManager called directly for URLs and for probed image URLs.
NextUrlOnly ==
  \/ \E i \in 1..Len(calls) : Deliver(i)
  \/ \E i \in 1..Len(calls), o \in {"ok", "status", "transport"} : ImageResponse(i, o)
  \/ \E r \in DirectRequests : DirectFetchImageUrl(r.name, r.folder)
  \/ \E n \in Names : DirectFetchTextureUrl(n)
  \/ \E ns \in DirectArrays : DirectFetchTextureUrls(ns)
  \/ \E ps \in DirectArrays : DirectFetchTextureUrlsFromPaths(ps)
  \/ \E path \in Names : DirectFetchImageUrlFromPath(path)
  \/ \E path \in Names : DirectFetchDocumentUrlFromPath(path)
  \/ \E r \in DirectRequests : DirectFetchDocumentUrl(r.name, r.folder)
  \/ \E r \in DirectRequests, t \in {"image", "json"} :
       DirectFetchAssetUrl(r.name, t, r.folder)
  \/ ClearCache

SpecFetcher == Init /\ [][NextFetcher]_vars
SpecUrlOnly == Init /\ [][NextUrlOnly]_vars
SpecResolver == InitResolver /\ [][NextResolver]_vars
SpecConfig == InitConfig /\ [][NextConfig]_vars
SpecPreload == Init /\ [][NextPreload]_vars
SpecHooks == Init /\ [][NextHooks]_vars

\* Requests whose folder is the literal "default" or whose folder or name
\* holds the separator of the cache key.
KeyRequests ==
  {[name |-> "a", folder |-> UNDEFINED], [name |-> "a", folder |-> "default"],
   [name |-> "y_z", folder |-> "x"], [name |-> "z", folder |-> "x_y"]}

\* The AssetManager called directly with those requests.
NextKeys ==
  \/ Network
  \/ \E r \in KeyRequests : DirectFetchJson(r.name, r.folder)
  \/ \E r \in KeyRequests : DirectFetchImageUrl(r.name, r.folder)

SpecKeys == Init /\ [][NextKeys]_vars

\* The list a page preloads while one of its views uses a hook.
SettleLists ==
  {<<[type |-> "json", name |-> "a", folder |-> UNDEFINED],
     [type |-> "document", name |-> "a", folder |-> UNDEFINED]>>}

\* One hook and the preloader side by side.
NextSettle ==
  \/ Network
  \/ \E a \in OneView, rec \in TeardownOptions : Mount(a, rec)
  \/ \E a \in OneView, n \in Names \cup {NULL} : Rebind(a, n)
  \/ \E a \in OneView : Refetch(a)
  \/ \E assets \in SettleLists : PreloadAssets(assets)

\* Every request receives a response and every suspended caller resumes:
\* a step of Network is taken whenever a call is in flight.
SpecSettle == Init /\ [][NextSettle]_vars /\ WF_vars(Network)

\* Two views, each mounted once and torn down at any time.
NextTeardown ==
  \/ Network
  \/ \E a \in Adapters, rec \in TeardownOptions : MountView(a, rec)
  \/ \E a \in Adapters : Unmount(a)

SpecTeardown == Init /\ [][NextTeardown]_vars

(* ------------------------------ properties ----------------------------- *)
FetchOps == {"fetchJson", "fetchImageUrl"}

\* This step settles a call (it leaves calls and becomes last).
SettleStep == Len(calls') = Len(calls) - 1
\* The positions in calls of the call this step settles.
SettledAt ==
  {i \in 1..Len(calls) :
     /\ calls' = Without(calls, i)
     /\ last' = [calls[i] EXCEPT !.pc = last'.pc, !.val = last'.val, !.at = nCalls]}
\* The calls this step starts.
Started == SubSeq(calls', Len(calls) + 1, Len(calls'))
\* The calls in flight that started after the call in last settled.
Subsequent == SubSeq(calls, Len(calls) - (nCalls - last.at) + 1, Len(calls))

\* C1: once a fetchJson or fetchImageUrl call has completed successfully
\* (and clearCache has not been called since), every call started afterwards
\* for the same (name, folder) issues no network request and resolves to
\* the value that first call stored.
C1_CacheHitSameValue ==
  /\ \A i \in 1..Len(calls) :
       calls[i].op \in FetchOps /\ calls[i].expect # NullV
         => ~calls[i].net /\ calls[i].pc = "ready" /\ calls[i].val = calls[i].expect
  /\ last.op \in FetchOps /\ last.expect # NullV
       => ~last.net /\ last.pc = "resolved" /\ last.val = last.expect

\* The half of C1 that the code keeps: such a call issues no request.
C1_NoRequestOnHit ==
  /\ \A i \in 1..Len(calls) :
       calls[i].op \in FetchOps /\ calls[i].expect # NullV
         => ~calls[i].net /\ calls[i].pc = "ready"
  /\ last.op \in FetchOps /\ last.expect # NullV
       => ~last.net /\ last.pc = "resolved"

\* C4: once a cache entry exists, no successful fetch of its key overwrites
\* it with a different value, also when two overlapping fetchJson calls both
\* missed the cache and both complete successfully.
C4_NeverOverwritten ==
  [][\A k \in DOMAIN cache \cap DOMAIN cache' : cache'[k] = cache[k]]_vars

IsError(v) == v # NullV /\ v[1] = "Error"

\* This step settles a fetchImageUrl call whose probe failed.
ImageFailStep == SettleStep /\ last'.op = "fetchImageUrl" /\ IsError(last'.val)
\* Call c asks again for what the call in last failed to get.
RetryOfFailedImage(c) ==
  /\ last.op = "fetchImageUrl" /\ last.pc = "rejected"
  /\ c.op = "fetchImageUrl" /\ c.key = last.key /\ c.url = last.url

\* C2 as stated: when a fetchImageUrl call fails the cache holds no entry
\* for its key, and a later fetchImageUrl for the same (name, folder)
\* issues a new HEAD probe.
C2_FailedProbeKeyAbsent ==
  [][/\ ImageFailStep => last'.pc = "rejected" /\ last'.key \notin DOMAIN cache'
     /\ \A j \in 1..Len(Started) :
          RetryOfFailedImage(Started[j]) => Started[j].net]_vars

\* C2 as amended: a failing fetchImageUrl call rejects and writes nothing to
\* the cache (its key is present afterwards only if it was present before,
\* stored by an overlapping call that succeeded); a later fetchImageUrl for
\* the same (name, folder) issues a new HEAD probe exactly when the key is
\* absent.
C2_FailedProbeWritesNothing ==
  [][/\ ImageFailStep =>
          /\ last'.pc = "rejected"
          /\ last'.val \in {ErrV("status"), ErrV("transport")}
          /\ cache' = cache
     /\ \A j \in 1..Len(Started) :
          RetryOfFailedImage(Started[j]) =>
            (Started[j].net <=> last.key \notin DOMAIN cache)]_vars

\* A probe failed, its key is absent, and a later call for the same image
\* is probing again.
C2_Witness ==
  /\ last.op = "fetchImageUrl" /\ last.pc = "rejected"
  /\ last.key \notin DOMAIN cache
  /\ \E j \in 1..Len(Subsequent) :
       /\ Subsequent[j].op = "fetchImageUrl" /\ Subsequent[j].key = last.key
       /\ Subsequent[j].net /\ Subsequent[j].pc = "fetch"

\* This step settles a fetchJson call that failed.
JsonFailStep == SettleStep /\ last'.op = "fetchJson" /\ IsError(last'.val)

\* C3: a fetchJson call that missed the cache rejects with the error and
\* leaves the cache unchanged when the GET fails in transport, when the
\* status is not a success and when the body does not parse; fetchJson
\* writes the cache only in the step in which the body parsed.
C3_FetchJsonFailureLeavesCache ==
  [][/\ JsonFailStep =>
          /\ last'.pc = "rejected" /\ last'.net
          /\ last'.val \in {ErrV("transport"), ErrV("status"), ErrV("parse")}
          /\ cache' = cache
     /\ \A i \in 1..Len(calls) :
          /\ calls[i].op = "fetchJson"
          /\ i \in SettledAt \/ (Len(calls') = Len(calls) /\ calls'[i] # calls[i])
          /\ cache' # cache
          => /\ calls[i].pc = "parse" /\ i \in SettledAt
             /\ last'.pc = "resolved"
             /\ cache' = Put(cache, calls[i].key, last'.val)]_vars

\* A body failed to parse while another document was already cached.
C3_Witness ==
  /\ last.op = "fetchJson" /\ last.pc = "rejected" /\ last.val = ErrV("parse")
  /\ last.key \notin DOMAIN cache
  /\ DOMAIN cache # {}

\* The calls in flight that entry i of the preload list awaits.
AwaitedBy(i) == {j \in 1..Len(calls) : calls[j].owner = ByPreload(i)}

\* This step settles the call an entry of the preload list awaits.
EntrySettleStep == SettleStep /\ last'.owner.kind = "preload"

\* C5: preloadAssets never rejects and its entries are independent: every
\* entry is dispatched when preloadAssets is called, each entry's outcome is
\* the outcome of its own operation, an entry's failure changes no other
\* entry, and the call resolves once no entry is pending.
C5_PreloadNeverRejects ==
  /\ [](/\ preload.status \in {"idle", "pending", "resolved"}
        /\ \A i \in 1..Len(preload.entries) :
             /\ preload.entries[i].promise \in {"pending", "fulfilled"}
             /\ preload.entries[i].st = "pending" <=> Cardinality(AwaitedBy(i)) = 1
             /\ preload.entries[i].st # "pending" => AwaitedBy(i) = {}
        /\ preload.status = "resolved" <=>
             /\ preload.status # "idle"
             /\ \A i \in 1..Len(preload.entries) : preload.entries[i].st # "pending")
  /\ [][EntrySettleStep =>
          LET i == last'.owner.i
          IN  /\ last'.pc = "rejected" <=> IsError(last'.val)
              /\ preload'.entries[i].st =
                   IF last'.pc = "resolved" THEN "ok" ELSE "failed"
              /\ \A j \in 1..Len(preload.entries) :
                   j # i => preload'.entries[j] = preload.entries[j]]_vars

\* A preload resolved although one of its entries failed, and another
\* entry fetched after that failure succeeded.
C5_Witness ==
  /\ preload.status = "resolved"
  /\ \E i, j \in 1..Len(preload.entries) :
       /\ preload.entries[i].st = "failed"
       /\ preload.entries[j].st = "ok" /\ awaited(preload.entries[j])
       /\ last.owner = ByPreload(j) /\ last.net

\* This step resolves the promise preloadAssets returned.
PreloadResolves == preload' # preload /\ preload'.status = "resolved"

\* C6 as stated: when preloadAssets has resolved, every entry (of any
\* category) whose operation succeeded has a cache entry under the request's
\* own key, and every entry whose operation failed has none.
C6_PreloadPostState ==
  [][PreloadResolves =>
       \A i \in 1..Len(preload'.entries) :
         LET e == preload'.entries[i]
             k == getCacheKey(e.name, e.type, e.folder)
         IN  /\ e.st = "ok" => k \in DOMAIN cache'
             /\ e.st = "failed" => k \notin DOMAIN cache']_vars

\* The category under which preloadAssets fetches an entry: a generic
\* ("asset") entry is fetched by fetchImageUrl, so under the image key.
fetchedAs(type) == IF type = "asset" THEN "image" ELSE type

\* C6 as amended: when preloadAssets has resolved and clearCache was not
\* called since it was called, every json, image or generic entry whose
\* operation succeeded has a cache entry under the key of the operation
\* that fetched it (json_..., image_... for image and generic entries);
\* texture and document entries succeed without a cache entry; a failing
\* entry writes nothing to the cache.
C6_PreloadPostStateFetched ==
  [][/\ PreloadResolves =>
          \A i \in 1..Len(preload'.entries) :
            LET e == preload'.entries[i]
            IN  /\ awaited(e) /\ e.st = "ok" /\ ~preload'.cleared
                     => getCacheKey(e.name, fetchedAs(e.type), e.folder) \in DOMAIN cache'
                /\ ~awaited(e)
                     => /\ e.st = "ok"
                        /\ getCacheKey(e.name, e.type, e.folder) \notin DOMAIN cache'
     /\ EntrySettleStep /\ last'.pc = "rejected" => cache' = cache]_vars

\* A preload resolved with a generic entry that succeeded and is cached
\* under the image key, and an entry that failed.
C6_Witness ==
  /\ preload.status = "resolved" /\ ~preload.cleared
  /\ \E i, j \in 1..Len(preload.entries) :
       /\ preload.entries[i].type = "asset" /\ preload.entries[i].st = "ok"
       /\ getCacheKey(preload.entries[i].name, "image", preload.entries[i].folder)
            \in DOMAIN cache
       /\ preload.entries[j].st = "failed"

\* C7: a hook created with a null identifier (useImageAsset: without a
\* fallback) is in {data: null, loading: false, error: null} for as long as
\* its identifier has never been non-null, and no Fetcher call is made.
C7_NullIdentifierAtCreation ==
  \A a \in Adapters :
    LET r == adapters[a]
    IN  r.mounted /\ ~r.everBound /\ ~Truthy(r.fallback)
          => /\ r.data = NullV /\ ~r.loading /\ r.error = NullV
             /\ \A i \in 1..Len(calls) : calls[i].owner # ByAdapter(a)
             /\ last.owner # ByAdapter(a)
             /\ nCalls = 0

\* useJsonAsset mounted with a null name and the preload option set: its
\* effect did call fetchData.
C7_Witness ==
  \E a \in Adapters :
    /\ adapters[a].mounted /\ ~adapters[a].everBound
    /\ adapters[a].kind = "useJsonAsset" /\ adapters[a].preloadOpt

\* C8: whenever a hook's identifier changes from a non-null value to null,
\* the hook settles to {data: fallback or null, loading: false, error: null}
\* without a Fetcher call, for every kind of hook, useJsonAsset without the
\* preload option included.
C8_ChangeToNullSettles ==
  [][\A a \in Adapters :
       /\ adapters[a].mounted
       /\ ~idIsNull(adapters[a]) /\ idIsNull(adapters'[a])
       => /\ adapters'[a].data = fallbackOrNull(adapters'[a])
          /\ ~adapters'[a].loading
          /\ adapters'[a].error = NullV
          /\ nCalls' = nCalls]_vars

\* The view passes no identifier: null, or an empty array to an array hook.
noIdentifier(r) ==
  IF r.kind \in ArrayKinds THEN r.paths \in {NullArr, <<>>} ELSE r.name = NULL

Idle(r) == ~r.loading /\ r.error = NullV /\ r.data = NullV
Loading(r) == r.loading /\ r.error = NullV
Success(r) == ~r.loading /\ r.error = NullV /\ r.data # NullV
Failed(r) == ~r.loading /\ r.error # NullV /\ r.data = fallbackOrNull(r)
\* Settled with both a value and an error.
Both(r) == ~r.loading /\ r.error # NullV /\ r.data # fallbackOrNull(r)

StartStepOf(a) == \E j \in 1..Len(Started) : Started[j].owner = ByAdapter(a)
SettleStepOf(a) == SettleStep /\ last'.owner = ByAdapter(a)

C10_ErrorConversion ==
  [][\A a \in Adapters :
       SettleStepOf(a) /\ IsError(last'.val)
       => /\ last'.pc = "rejected"
          /\ last'.val \in {ErrV("status"), ErrV("transport"), ErrV("parse")}
          /\ adapters'[a].error = last'.val
          /\ adapters'[a].data = fallbackOrNull(adapters[a])
          /\ ~adapters'[a].loading]_vars

\* useImageAsset with a fallback whose probe failed: data is the fallback.
C10_Witness ==
  \E a \in Adapters :
    /\ adapters[a].kind = "useImageAsset" /\ Truthy(adapters[a].fallback)
    /\ last.owner = ByAdapter(a) /\ last.pc = "rejected"
    /\ adapters[a].error = last.val
    /\ adapters[a].data = UrlV(adapters[a].fallback)
    /\ ~adapters[a].loading

\* The cache key of the identifier bound to a useJsonAsset / useImageAsset hook.
boundKey(r) ==
  getCacheKey(r.name, IF r.kind = "useJsonAsset" THEN "json" ELSE "image", r.folder)

\* This step is a refetch() of hook a: a fetch starts, the bindings stay.
RefetchStepOf(a) ==
  /\ adapters[a].mounted /\ StartStepOf(a)
  /\ adapters'[a].name = adapters[a].name /\ adapters'[a].paths = adapters[a].paths

\* C11: refetch() of useJsonAsset / useImageAsset starts one fetch for the
\* bound identifier; if its key is cached the call issues no request and
\* the hook settles to the cached value, and if the key is absent the call
\* issues one network request.
C11_RefetchConsultsCache ==
  [][\A a \in Adapters :
       LET r == adapters[a]
       IN  r.kind \in {"useJsonAsset", "useImageAsset"} =>
             /\ RefetchStepOf(a) =>
                  /\ Len(Started) = 1
                  /\ Started[1].key = boundKey(r)
                  /\ IF boundKey(r) \in DOMAIN cache
                     THEN /\ ~Started[1].net /\ Started[1].pc = "ready"
                          /\ Started[1].val = cache[boundKey(r)]
                     ELSE Started[1].net /\ Started[1].pc = "fetch"
             /\ SettleStepOf(a) /\ ~last'.net =>
                  /\ last'.pc = "resolved" /\ last'.val = cache[last'.key]
                  /\ cache' = cache
                  /\ adapters'[a].data = last'.val /\ ~adapters'[a].loading]_vars

\* useImageAsset settled with a URL and was refetched: the call found the
\* URL in the cache and is about to hand it to the hook.
C11_Witness ==
  \E a \in Adapters :
    /\ adapters[a].kind = "useImageAsset" /\ adapters[a].loading
    /\ Len(calls) = 1 /\ calls[1].owner = ByAdapter(a)
    /\ calls[1].op = "fetchImageUrl" /\ calls[1].pc = "ready" /\ ~calls[1].net
    /\ calls[1].val = adapters[a].data /\ adapters[a].data # NullV

\* C12: constructing the AssetManager with an empty or missing r2.baseUrl
\* throws, so no instance with an empty base URL exists and no network
\* request is issued with one.
C12_FatalConfig ==
  /\ config # NoInstance => Truthy(config)
  /\ \A i \in 1..Len(calls) : calls[i].net => Truthy(config)

\* C13: fetchTextureUrlsFromPaths(p) resolves to an array as long as p
\* whose element i is baseUrl + "/" + p[i] verbatim, for every i and every
\* ordering of p; fetchTextureUrls(names)[i] is the texture URL of names[i].
C13_FetcherIndexCorrespondence ==
  /\ result.op = "fetchTextureUrlsFromPaths" =>
       /\ result.val[1] = "urls" /\ Len(result.val) = Len(result.arg) + 1
       /\ \A i \in 1..Len(result.arg) :
            result.val[i + 1] = baseUrl \o "/" \o result.arg[i]
  /\ result.op = "fetchTextureUrls" =>
       /\ result.val[1] = "urls" /\ Len(result.val) = Len(result.arg) + 1
       /\ \A i \in 1..Len(result.arg) :
            result.val[i + 1] = baseUrl \o "/textures/" \o result.arg[i]

\* Three different paths, not in alphabetical order, were mapped.
C13_Witness ==
  /\ result.op = "fetchTextureUrlsFromPaths"
  /\ result.arg = <<"b.png", "a,b", "a.png">>
  /\ result.val[3] = baseUrl \o "/a,b"

\* The URL the array hook r resolves one element of its array to.
elementUrl(r, x) ==
  IF r.kind = "useTextureAssetsFromPaths" THEN getDirectAssetUrl(x)
  ELSE getAssetUrl(x, "texture", UNDEFINED)

\* C14: whenever an array hook is settled with non-null data, data is as
\* long as the array currently bound and data[i] is the URL of its element
\* i, also for elements that contain the ',' character.
C14_AdapterIndexCorrespondence ==
  \A a \in Adapters :
    LET r == adapters[a]
    IN  r.mounted /\ r.kind \in ArrayKinds /\ ~r.loading /\ r.data # NullV
          => /\ r.paths # NullArr
             /\ Len(r.data) = Len(r.paths) + 1
             /\ \A i \in 1..Len(r.paths) : r.data[i + 1] = elementUrl(r, r.paths[i])

\* The category defaults the specification lists.
categoryDefault(type) ==
  CASE type = "texture" -> "textures"
    [] type = "image" -> "assets"
    [] type = "asset" -> "assets"
    [] type = "json" -> "data"
    [] type = "document" -> "documents"

\* The result of getAssetUrl (either variant) is base + "/" + F + "/" + name.
builtWith(F) ==
  LET base == IF result.op = "getAssetUrl" THEN baseUrl ELSE localBaseUrl
  IN  result.val = <<base \o "/" \o F \o "/" \o result.arg[1]>>

\* C15 as stated: the resolved URL is baseUrl/F/name where F is the folder
\* override whenever one is supplied, the empty string included, and the
\* category default otherwise, in both variants.
C15_BuildUrl ==
  result.op \in {"getAssetUrl", "local.getAssetUrl"} =>
    builtWith(IF result.arg[3] # UNDEFINED THEN result.arg[3]
              ELSE categoryDefault(result.arg[2]))

\* C15 as amended: F is the folder override when one is supplied and is
\* not the empty string, and the category default otherwise (an empty
\* override counts as none); both variants choose the same F.
C15_BuildUrlNonEmptyOverride ==
  result.op \in {"getAssetUrl", "local.getAssetUrl"} =>
    builtWith(IF result.arg[3] \notin {UNDEFINED, ""} THEN result.arg[3]
              ELSE categoryDefault(result.arg[2]))

\* The R2 variant resolved an image request whose folder override is the
\* empty string to the default folder.
C15_Witness ==
  /\ result.op = "getAssetUrl" /\ result.arg = <<"a", "image", "">>
  /\ result.val = <<baseUrl \o "/assets/a">>

\* C16 as stated: the key of a request is category + "_" + (the folder
\* override if one is given, else "default") + "_" + name, whatever the
\* cache holds and whatever was computed before.
C16_CacheKey ==
  result.op = "getCacheKey" =>
    result.val =
      <<result.arg[2] \o "_"
          \o (IF result.arg[3] # UNDEFINED THEN result.arg[3] ELSE "default")
          \o "_" \o result.arg[1]>>

\* C16 as amended: the middle part is the folder override if one is given
\* and is not the empty string, else "default"; the key depends on the
\* request alone.
C16_CacheKeyNonEmptyOverride ==
  result.op = "getCacheKey" =>
    result.val =
      <<result.arg[2] \o "_"
          \o (IF result.arg[3] \notin {UNDEFINED, ""} THEN result.arg[3] ELSE "default")
          \o "_" \o result.arg[1]>>

\* The key of a request with a folder override was computed while the
\* cache held an entry.
C16_Witness ==
  /\ result.op = "getCacheKey" /\ result.arg = <<"a", "json", "f">>
  /\ result.val = <<"json_f_a">>
  /\ DOMAIN cache # {}

\* C17: the URL-only operations issue no network request, leave the cache
\* unchanged and always resolve with the URL(s) they computed, also for a
\* resource for which fetchImageUrl rejects.
C17_UrlOnlyNoEffects ==
  [][/\ \A j \in 1..Len(Started) :
          Started[j].op = "url" =>
            /\ ~Started[j].net /\ Started[j].pc = "ready"
            /\ Started[j].val # NullV /\ Started[j].val[1] \in {"url", "urls"}
            /\ cache' = cache
     /\ \A i \in SettledAt :
          calls[i].op = "url" =>
            /\ last'.pc = "resolved" /\ last'.val = calls[i].val
            /\ cache' = cache]_vars

\* fetchImageUrl rejected for an image, and a URL-only operation called
\* afterwards for the same resource has its URL ready.
C17_Witness ==
  /\ last.op = "fetchImageUrl" /\ last.pc = "rejected"
  /\ last.key \notin DOMAIN cache
  /\ \E j \in 1..Len(Subsequent) :
       /\ Subsequent[j].op = "url" /\ Subsequent[j].pc = "ready"
       /\ Subsequent[j].val = UrlV(last.url)

C19_NoDeduplication ==
  [][/\ \A j \in 1..Len(Started) :
          Started[j].op \in FetchOps =>
            /\ Started[j].net <=> Started[j].key \notin DOMAIN cache
            /\ Started[j].net => Started[j].pc = "fetch"
     /\ \A i \in SettledAt :
          calls[i].op \in FetchOps /\ calls[i].net /\ last'.pc = "resolved"
            => cache' = Put(cache, calls[i].key, last'.val)]_vars

\* Two calls for one key overlapped and both went to the network; the
\* second one to complete wrote the entry again, over the first one's.
C19_Witness ==
  /\ last.op = "fetchJson" /\ last.net /\ last.pc = "resolved"
  /\ last.key \in DOMAIN cache /\ cache[last.key] = last.val
  /\ last.key \in DOMAIN firstStored /\ firstStored[last.key] # last.val

C21_PreloadResolvesLast ==
  /\ [](preload.status = "resolved" =>
          /\ \A j \in 1..Len(calls) : calls[j].owner.kind # "preload"
          /\ \A i \in 1..Len(preload.entries) : preload.entries[i].st # "pending")
  /\ [][\A i \in 1..Len(preload'.entries) :
          preload' # preload /\ ~awaited(preload'.entries[i])
            => /\ preload'.entries[i].st = "ok"
               /\ \A j \in 1..Len(calls') : calls'[j].owner # ByPreload(i)]_vars

\* A preload of a texture and an image resolved when the probe of the
\* image, the last operation in flight, had failed.
C21_Witness ==
  /\ preload.status = "resolved" /\ Len(preload.entries) = 2
  /\ preload.entries[1].type = "texture" /\ preload.entries[2].type = "image"
  /\ last.owner = ByPreload(2) /\ last.net /\ last.pc = "rejected"
  /\ calls = <<>>


\* This step re-renders hook a with another identifier.
IdentifierChangeOf(a) ==
  adapters'[a].name # adapters[a].name \/ adapters'[a].paths # adapters[a].paths
\* This step is refetch() of hook a while it has no identifier.
NullRefetchOf(a) ==
  /\ nullBinding(adapters[a]) /\ UNCHANGED calls
  /\ adapters'[a] # adapters[a] /\ ~IdentifierChangeOf(a)

NullSettleOf(a) ==
  /\ nullBinding(adapters'[a]) /\ UNCHANGED calls
  /\ adapters'[a].data = fallbackOrNull(adapters'[a])
  /\ adapters'[a].error = NullV

\* C23: there is no timeout. The only steps that take a hook from
\* loading=true to loading=false are the completion of a fetch it started
\* and the settle for a null identifier; under every other step, and so for
\* as long as the request does not complete, it stays loading.
C23_OnlyCompletionEndsLoading ==
  [][\A a \in Adapters :
       adapters[a].loading /\ ~adapters'[a].loading
         => SettleStepOf(a) \/ NullSettleOf(a)]_vars

\* A hook is loading with its request outstanding while an earlier fetch of
\* it has settled and its entry is in the cache.
C23_Witness ==
  \E a \in Adapters :
    /\ adapters[a].mounted /\ adapters[a].loading
    /\ Len(calls) = 1 /\ calls[1].owner = ByAdapter(a)
    /\ calls[1].net /\ calls[1].pc = "fetch"
    /\ last.owner = ByAdapter(a) /\ last.pc = "resolved"
    /\ DOMAIN cache # {}


\* The view of hook a has been torn down.
TornDown(r) == ~r.mounted /\ r.kind # "none"

\* C24: tearing a view down cancels nothing. The teardown leaves the
\* hook's calls in flight and the cache as they are; when a call of a
\* torn-down hook completes, a successful result is stored in the cache
\* under the call's key, the completion writes the state of the torn-down
\* hook as it would have written it mounted, and the state of every other
\* hook is unchanged.
C24_NoCancellationOnTeardown ==
  [][\A a \in Adapters :
       /\ adapters[a].mounted /\ ~adapters'[a].mounted
            => /\ calls' = calls /\ cache' = cache
               /\ adapters' = [adapters EXCEPT ![a].mounted = FALSE]
       /\ TornDown(adapters[a]) /\ SettleStepOf(a)
            => /\ last'.net /\ last'.pc = "resolved"
                    => /\ last'.key \in DOMAIN cache'
                       /\ cache'[last'.key] = last'.val
               /\ adapters'[a] =
                    adapterAfter(adapters[a], last'.pc = "resolved", last'.val)
               /\ \A b \in Adapters \ {a} : adapters'[b] = adapters[b]]_vars

\* The fetch of a torn-down hook completed with a network response that was
\* stored and written to its state while the other hook is still loading.
C24_Witness ==
  \E a \in Adapters, b \in Adapters :
    /\ a # b /\ TornDown(adapters[a])
    /\ last.owner = ByAdapter(a) /\ last.net /\ last.pc = "resolved"
    /\ last.key \in DOMAIN cache /\ cache[last.key] = last.val
    /\ adapters[a].data = last.val /\ ~adapters[a].loading
    /\ adapters[b].mounted /\ adapters[b].loading
    /\ \E j \in 1..Len(calls) : calls[j].owner = ByAdapter(b)


\* The value v is what call c obtains from its own URL: the document
\* fetched from c.url, or the string c.url.
ofOwnUrl(c, v) ==
  IF c.op = "fetchJson" THEN v[1] = "json" /\ v[2] = c.url ELSE v = UrlV(c.url)

\* C25: the value fetchJson or fetchImageUrl returns for a request is the
\* document fetched from, respectively the string of, the URL built for
\* that request, whether it comes from the network or from the cache; so
\* two requests with different URLs never share a cache entry.
C25_ValueOfOwnUrl ==
  /\ \A i \in 1..Len(calls) :
       calls[i].op \in FetchOps /\ calls[i].pc = "ready"
         => ofOwnUrl(calls[i], calls[i].val)
  /\ last.op \in FetchOps /\ last.pc = "resolved" => ofOwnUrl(last, last.val)


C27_LoadingWhileInFlight ==
  \A a \in Adapters :
    /\ ~nullBinding(adapters[a])
    /\ \E j \in 1..Len(calls) : calls[j].owner = ByAdapter(a)
    => adapters[a].loading

\* C27 as amended: loading is true from the start of a fetch until the next
\* completion of any fetch of the hook. While the hook has an identifier and
\* fetches in flight, loading is true exactly if none of its fetches has
\* completed since it last started one; so the completion of an older
\* overlapping fetch sets loading to false while the newer is in flight.
C27_LoadingUntilNextCompletion ==
  \A a \in OneView :
    /\ ~nullBinding(adapters[a])
    /\ \E j \in 1..Len(calls) : calls[j].owner = ByAdapter(a)
    => (adapters[a].loading <=> last.at < nCalls)

\* The hook is bound to 'b' and the request for 'b' is outstanding, but the
\* fetch of 'a' has completed since and loading is false.
C27_Witness ==
  \E a \in OneView :
    /\ adapters[a].name = "b" /\ ~adapters[a].loading
    /\ Len(calls) = 1 /\ calls[1].owner = ByAdapter(a)
    /\ calls[1].net /\ calls[1].pc = "fetch"
    /\ last.owner = ByAdapter(a) /\ last.at = nCalls /\ nCalls = 2

\* C28: when every request receives a response and the identifier stops
\* changing, every hook eventually has loading=false and keeps it, and
\* every preloadAssets call eventually resolves.
C28_EventualSettlement ==
  /\ <>[](\A a \in Adapters : ~adapters[a].loading)
  /\ (preload.status = "pending") ~> (preload.status = "resolved")

\* The hook has settled after overlapping fetches, one of which failed,
\* and a preload that went to the network has resolved.
C28_Witness ==
  \E a \in OneView :
    /\ adapters[a].mounted /\ ~adapters[a].loading
    /\ adapters[a].error # NullV
    /\ preload.status = "resolved" /\ Len(preload.entries) > 0
    /\ nCalls >= 3 /\ calls = <<>>


\* C29: the step that starts a fetch of a hook for a non-null identifier
\* sets loading to true and error to null and changes nothing else of the
\* hook's result: data keeps the value it had, and the cache is not
\* modified.
C29_EnteringLoadingKeepsData ==
  [][\A a \in Adapters :
       StartStepOf(a)
         => /\ adapters'[a].loading /\ adapters'[a].error = NullV
            /\ adapters'[a].data = adapters[a].data
            /\ cache' = cache]_vars

\* useJsonAsset is loading 'b' and has not heard from the network yet; data
\* is still the document of 'a'.
C29_Witness ==
  \E a \in OneView :
    /\ adapters[a].kind = "useJsonAsset" /\ adapters[a].name = "b"
    /\ adapters[a].loading /\ adapters[a].error = NullV
    /\ adapters[a].data # NullV
    /\ adapters[a].data[2] = getAssetUrl("a", "json", adapters[a].folder)
    /\ Len(calls) = 1 /\ calls[1].pc = "fetch"
    /\ calls[1].url = getAssetUrl("b", "json", adapters[a].folder)


\* This step is clearCache() on a cache that holds entries.
ClearStep == cache # EmptyMap /\ cache' = EmptyMap

\* C30: clearCache() removes every entry and touches no call: the calls in
\* flight stay in flight. A fetchJson or fetchImageUrl call started when
\* its key is not in the cache, as after a clear, issues a request; and a
\* call that completes successfully with a response stores its value under
\* its key, whether or not the cache was cleared since it started.
C30_ClearCacheVsInFlight ==
  [][/\ ClearStep => calls' = calls /\ last' = last /\ nCalls' = nCalls
     /\ \A j \in 1..Len(Started) :
          Started[j].op \in FetchOps /\ Started[j].key \notin DOMAIN cache
            => Started[j].net /\ Started[j].pc = "fetch"
     /\ \A i \in SettledAt :
          calls[i].net /\ last'.pc = "resolved"
            => /\ last'.key \in DOMAIN cache'
               /\ cache'[last'.key] = last'.val]_vars

\* The cache was cleared after a call had stored its entry and while another
\* call for the same key, started before that call settled, is in flight.
C30_Witness ==
  /\ cache = EmptyMap
  /\ last.net /\ last.pc = "resolved" /\ last.at = nCalls
  /\ \E j \in 1..Len(calls) :
       calls[j].key = last.key /\ calls[j].net /\ calls[j].pc = "fetch"

====
